---- MODULE Spec2Model ----
(***************************************************************************)
(* Model of src/index.py: the "santo do dia" API.                          *)
(*                                                                         *)
(*   criar_chave_cache     the date-bound cache key                        *)
(*   buscar_url            the lru_cache-memoized page fetch               *)
(*   extrair_info_santo    the positional extraction of a record           *)
(*   buscar_dados_santo    one fan-out task (fetch + extraction)           *)
(*   inicio, data,         the three routes                                *)
(*   limpar_cache                                                          *)
(*   limpar_e_atualizar_cache   the midnight job of the scheduler          *)
(*   apos_requisicao       the X-Status-Cache header                       *)
(*                                                                         *)
(* Text taken from a page is a sequence of one-character strings, so that  *)
(* strip() and join() are computed; cache keys are TLA+ strings built with *)
(* \o and ToString, as str() and "_".join build them.                      *)
(*                                                                         *)
(* Spec         the server: one request thread and the scheduler's job     *)
(* SpecPar      two simultaneous requests                                  *)
(* SpecAgendador  the scheduler's job alone, over several midnights        *)
(* SpecLeque    the fan-out of a request over list pages of several links  *)
(* SpecLequeJusto  the same, the threads scheduled and the fetches ending  *)
(* SpecFila     the worker pool on a list of more links than workers       *)
(* SpecChave    criar_chave_cache on its own                               *)
(* SpecExtrair  extrair_info_santo on its own                              *)
(*                                                                         *)
(* antes_requisicao only logs and is left out.                             *)
(***************************************************************************)
EXTENDS Integers, Sequences, FiniteSets, TLC

VARIABLES
    hoje,       \* datetime.now(): the index of the current calendar date
    cache,      \* flask_caching SimpleCache: key -> [valor, dia, corpos]: the
                \* value, the date it was stored on and the dates on which
                \* the bodies it was built from were fetched
    memo,       \* the lru_cache of buscar_url: url -> [corpo, dia], the body
                \* and the date it was fetched on (the model's urls are
                \* fewer than maxsize=128: nothing is evicted)
    proc,       \* one record per thread: the requests and the scheduler's job
    entrada,    \* input of the pure-function specifications
    saida       \* output of the pure-function specifications

vars == <<hoje, cache, memo, proc, entrada, saida>>

-----------------------------------------------------------------------------
(* Bounds of the model.                                                    *)

\* Number of date changes (midnights) a behaviour goes through.
MaxDia == 1

\* Longest list of links of a list page in the fan-out specification.
MaxLinks == 3

\* Longest paragraph list of the pages of the extraction specification.
MaxPar == 6

-----------------------------------------------------------------------------
(* Python helpers.                                                         *)

\* A slice index brought into 0..n, as Python's slice.indices does.
Ajusta(i, n) ==
    IF i < 0 THEN (IF n + i < 0 THEN 0 ELSE n + i)
    ELSE IF i > n THEN n ELSE i

\* A mutant of Fatia: a negative index is not counted from the end.
FatiaSemNegativos(s, a, b) ==
    LET lo == IF a < 0 THEN 0 ELSE a
        hi == IF b < 0 THEN 0 ELSE IF b > Len(s) THEN Len(s) ELSE b
    IN  IF lo < hi THEN SubSeq(s, lo + 1, hi) ELSE <<>>

\* s[a:b] of a Python list (0-based, b excluded, negative from the end).
Fatia(s, a, b) ==
    LET lo == Ajusta(a, Len(s))
        hi == Ajusta(b, Len(s))
    IN  IF lo < hi THEN SubSeq(s, lo + 1, hi) ELSE <<>>

Branco == {" ", "\n"}

RECURSIVE LStrip(_)
LStrip(t) ==
    IF t # <<>> /\ Head(t) \in Branco THEN LStrip(Tail(t)) ELSE t

RECURSIVE RStrip(_)
RStrip(t) ==
    IF t # <<>> /\ t[Len(t)] \in Branco
    THEN RStrip(SubSeq(t, 1, Len(t) - 1)) ELSE t

\* str.strip()
Strip(t) == RStrip(LStrip(t))

\* "\n\n".join(partes)
RECURSIVE Join(_)
Join(partes) ==
    IF partes = <<>> THEN <<>>
    ELSE IF Len(partes) = 1 THEN partes[1]
    ELSE partes[1] \o <<"\n", "\n">> \o Join(Tail(partes))

\* [p.text.strip() for p in ps if p.text.strip()]
RECURSIVE NaoVazios(_)
NaoVazios(ps) ==
    IF ps = <<>> THEN <<>>
    ELSE IF Strip(Head(ps)) # <<>>
         THEN <<Strip(Head(ps))>> \o NaoVazios(Tail(ps))
         ELSE NaoVazios(Tail(ps))

-----------------------------------------------------------------------------
(* The calendar and criar_chave_cache.                                     *)

\* The calendar date of day index i: the model starts on 2026-01-30.
DataDe(i) ==
    IF i <= 1 THEN [ano |-> 2026, mes |-> 1, dia |-> 30 + i]
    ELSE IF i <= 29 THEN [ano |-> 2026, mes |-> 2, dia |-> i - 1]
    ELSE [ano |-> 2026, mes |-> 3, dia |-> i - 29]

Dois(n) == IF n < 10 THEN "0" \o ToString(n) ELSE ToString(n)

\* datetime.strftime("%Y-%m-%d"): the time of day is not in the format.
Strftime(d) == ToString(d.ano) \o "-" \o Dois(d.mes) \o "-" \o Dois(d.dia)

\* "_".join(partes) of a list of strings
RECURSIVE JoinChave(_)
JoinChave(partes) ==
    IF partes = <<>> THEN ""
    ELSE IF Len(partes) = 1 THEN partes[1]
    ELSE partes[1] \o "_" \o JoinChave(Tail(partes))

\* The keyword names a call may pass, in sorted order.
NomesKw == <<"dia", "mes">>

\* f"{k}:{v}" for k, v in sorted(kwargs.items())
RECURSIVE PartesKw(_, _)
PartesKw(kwargs, nomes) ==
    IF nomes = <<>> THEN <<>>
    ELSE (IF Head(nomes) \in DOMAIN kwargs
          THEN <<Head(nomes) \o ":" \o kwargs[Head(nomes)]>>
          ELSE <<>>) \o PartesKw(kwargs, Tail(nomes))

\* hashlib.md5(s).hexdigest(): the digest of s. MD5 is not computed; the
\* digest is a value that is a function of s and of nothing else.
Md5(s) == <<"md5", s>>

\* A mutant of criar_chave_cache: the date is left out of the key.
ChaveSemData(args, kwargs, agora) ==
    Md5(JoinChave(args \o PartesKw(kwargs, NomesKw)))

\* criar_chave_cache(*args, **kwargs) called when datetime.now() is agora.
criar_chave_cache(args, kwargs, agora) ==
    Md5(JoinChave(args \o PartesKw(kwargs, NomesKw) \o <<Strftime(agora)>>))

SemKw == [k \in {} |-> ""]

-----------------------------------------------------------------------------
(* Pages and extrair_info_santo.                                           *)

\* None
Nulo == [tipo |-> "None"]

\* A page as BeautifulSoup sees it.
\*   temLista/links  div.saints-list and the href of its links
\*   temNome/nome    div.feature__name and its text
\*   temTexto/ps     div.wg-text and the text of its <p> elements
\*   feature         div.feature: "ausente", "semRetrato" (no
\*                   .feature__portrait in it), "semSrc" (a portrait
\*                   without src) or "comSrc"
\*   src             the portrait's src
Pagina(temLista, links, temNome, nome, temTexto, ps, feature, src) ==
    [temLista |-> temLista, links |-> links, temNome |-> temNome,
     nome |-> nome, temTexto |-> temTexto, ps |-> ps,
     feature |-> feature, src |-> src]

\* A mutant of extrair_info_santo: the reflection is sliced one place late.
ExtrairReflexaoDeslocada(soup) ==
    IF ~soup.temNome \/ ~soup.temTexto \/ soup.feature \in {"ausente", "semSrc"}
    THEN Nulo
    ELSE [tipo |-> "santo",
          nome |-> Strip(soup.nome),
          imagem |-> IF soup.feature = "comSrc"
                     THEN <<"https://www.a12.com" \o soup.src>> ELSE <<>>,
          historia |-> Join(NaoVazios(Fatia(soup.ps, 0, -4))),
          reflexao |-> Join(NaoVazios(Fatia(soup.ps, -2, -1))),
          oracao |-> Join(NaoVazios(Fatia(soup.ps, -1, Len(soup.ps))))]

\* extrair_info_santo(soup): the record, or None when an element the code
\* dereferences is missing (the exception is caught at line 85).
extrair_info_santo(soup) ==
    IF ~soup.temNome \/ ~soup.temTexto \/ soup.feature \in {"ausente", "semSrc"}
    THEN Nulo
    ELSE [tipo |-> "santo",
          nome |-> Strip(soup.nome),
          imagem |-> IF soup.feature = "comSrc"
                     THEN <<"https://www.a12.com" \o soup.src>> ELSE <<>>,
          historia |-> Join(NaoVazios(Fatia(soup.ps, 0, -4))),
          reflexao |-> Join(NaoVazios(Fatia(soup.ps, -3, -2))),
          oracao |-> Join(NaoVazios(Fatia(soup.ps, -1, Len(soup.ps))))]

-----------------------------------------------------------------------------
(* The origin site.                                                        *)

\* A URL is the sequence of its pieces, so that `'day' in url` is decided
\* by looking for the piece "day" (the base piece holds no "day").
UrlInicio == <<"https://www.a12.com/reze-no-santuario/santo-do-dia">>

UrlData(dia, mes) ==
    UrlInicio \o <<"?", "day", "=", ToString(dia), "&", "month", "=", ToString(mes)>>

\* 'day' in url
ContemDay(url) == \E i \in 1..Len(url) : url[i] = "day"

PaginaLista(links) ==
    Pagina(TRUE, links, FALSE, <<>>, FALSE, <<>>, "ausente", "")

PaginaSanto(nome, ps) ==
    Pagina(FALSE, <<>>, TRUE, nome, TRUE, ps, "comSrc", "/img.jpg")

\* A page without div.feature__name: its extraction fails.
PaginaQuebrada ==
    Pagina(FALSE, <<>>, FALSE, <<>>, TRUE, <<<<"1">>>>, "semRetrato", "")

SeisParagrafos == << <<"1">>, <<"2">>, <<"3">>, <<"4">>, <<"5">>, <<"6">> >>

DoisParagrafos == << <<"1">>, <<"2">> >>

\* The href of the n-th saint's page.
Href(n) == "/s" \o ToString(n)

\* A list page with the links of the first n saints.
ListaDe(n) == PaginaLista([i \in 1..n |-> Href(i)])

\* The page of one saint as the origin serves it: whole, or without its
\* name element.
PaginaFilho(url, variante) ==
    IF variante = "boa" THEN PaginaSanto(<<url[1]>>, SeisParagrafos)
    ELSE PaginaQuebrada

\* What the origin answers for a top-level URL in the specification of the
\* server. The page of the day is a list of one saint, the page of a date
\* is the page of its saint (two paragraphs); either may come without its
\* name element, which makes its extraction fail.
OrigemTopo(url) ==
    IF ContemDay(url)
    THEN {PaginaSanto(<<"S">>, DoisParagrafos), PaginaQuebrada}
    ELSE {ListaDe(1), PaginaQuebrada}

\* A list page that links the page of the first saint twice.
ListaRepetida == PaginaLista(<<Href(1), Href(1)>>)

\* ... and in the specification of the fan-out: a list of up to MaxLinks
\* saints, a list with a repeated link, the page of one saint, or a page
\* that cannot be extracted.
OrigemLeque ==
    {ListaDe(n) : n \in 0..MaxLinks}
        \cup {ListaRepetida, PaginaSanto(<<"S">>, DoisParagrafos), PaginaQuebrada}

-----------------------------------------------------------------------------
(* Threads.                                                                *)

\* The request thread of the server.
Reqs == {"r1"}

\* The request threads of the specification of simultaneous requests.
Simultaneos == {"r1", "r2"}

\* The scheduler's job thread.
Ag == "agendador"

Procs == Simultaneos \cup {Ag}

\* ThreadPoolExecutor(max_workers=5)
MaxWorkers == 5

SemResposta ==
    [status |-> 0, tipo |-> "nenhuma", resultados |-> <<>>,
     publico |-> FALSE, cabecalho |-> ""]

\* A thread that runs nothing.
\*   pc        "ocioso", "consulta" (request received), "limpar" (job fired),
\*             "memo" (about to call buscar_url on the top-level URL),
\*             "rede" (that fetch is on the network), "leque" (the fan-out)
\*   rota, dia, mes   the route of the request and its parameters
\*   chave            the request's cache key
\*   url, soup        the top-level URL and its parsed page
\*   tarefas          the fan-out: per link [url, est, res, falha]: the
\*                    link, "pend"/"exec"/"fim", the task's result, and
\*                    whether its fetch raised (the log of line 96)
\*   lidos            the dates of fetch of the bodies the resolution has read
\*   santos, temSantos   the job's local `santos`, unbound until assigned
\*   corpos           the dates of fetch of the bodies behind the job's `santos`
\*   i, hojeLocal     the job's position in `urls` and its local `hoje`
\*   tentadas         the positions of `urls` the job has called buscar_url on
\*   resolvidas       the positions of `urls` whose resolution gave a list
\*   resposta         the response of the thread's last request
Parado ==
    [pc |-> "ocioso", rota |-> "", dia |-> 0, mes |-> 0, url |-> <<>>,
     chave |-> <<>>, soup |-> Nulo, tarefas |-> <<>>, lidos |-> {},
     santos |-> <<>>, temSantos |-> FALSE, corpos |-> {},
     i |-> 0, hojeLocal |-> 0, tentadas |-> {}, resolvidas |-> {},
     resposta |-> SemResposta]

-----------------------------------------------------------------------------
(* Shared helpers of the handlers.                                         *)

\* f with k bound to v
Por(f, k, v) == [x \in DOMAIN f \cup {k} |-> IF x = k THEN v ELSE f[x]]

Vazio == [x \in {} |-> <<>>]

\* apos_requisicao(resposta): X-Status-Cache from cache_control.public
apos_requisicao(resposta) ==
    [resposta EXCEPT !.cabecalho = IF resposta.publico THEN "HIT" ELSE "MISS"]

\* jsonify(resultados=santos), then the after_request hook.
\* jsonify never sets cache_control.public.
RespostaResultados(santos) ==
    apos_requisicao([status |-> 200, tipo |-> "resultados",
                     resultados |-> santos, publico |-> FALSE, cabecalho |-> ""])

\* A mutant of RespostaErro: a failure is answered with an empty list.
RespostaListaVazia == RespostaResultados(<<>>)

\* jsonify(erro=str(e)), 500
RespostaErro ==
    apos_requisicao([status |-> 500, tipo |-> "erro",
                     resultados |-> <<>>, publico |-> FALSE, cabecalho |-> ""])

\* jsonify(mensagem=...)
RespostaMensagem ==
    apos_requisicao([status |-> 200, tipo |-> "mensagem",
                     resultados |-> <<>>, publico |-> FALSE, cabecalho |-> ""])

\* The key a route derives on day index dia.
ChaveDaRota(rota, d, m, dia) ==
    IF rota = "inicio"
    THEN criar_chave_cache(<<"inicio">>, SemKw, DataDe(dia))
    ELSE criar_chave_cache(<<"data", ToString(d), ToString(m)>>, SemKw,
                           DataDe(dia))

\* The URL a route resolves.
UrlDaRota(rota, d, m) == IF rota = "inicio" THEN UrlInicio ELSE UrlData(d, m)

\* The truth value Python gives a list.
Verdadeiro(lista) == lista # <<>>

\* The fan-out over the links of a page: every task submitted, none started.
Tarefas(soup) ==
    IF soup.temLista
    THEN [i \in 1..Len(soup.links) |->
            [url |-> <<soup.links[i]>>, est |-> "pend", res |-> Nulo,
             falha |-> FALSE]]
    ELSE <<>>

\* A mutant of Filtrados: the results in reverse order.
FiltradosInvertidos(tarefas) ==
    LET n == Len(tarefas)
        rs == [i \in 1..n |-> tarefas[n + 1 - i].res]
    IN  SelectSeq(rs, LAMBDA x : x # Nulo)

\* list(filter(None, executor.map(buscar_dados_santo, urls)))
Filtrados(tarefas) ==
    SelectSeq([i \in 1..Len(tarefas) |-> tarefas[i].res], LAMBDA x : x # Nulo)

\* A mutant of Terminadas: the caller waits for a record of every task.
TodasComRegistro(tarefas) ==
    \A i \in 1..Len(tarefas) : tarefas[i].est = "fim" /\ tarefas[i].res # Nulo

Terminadas(tarefas) == \A i \in 1..Len(tarefas) : tarefas[i].est = "fim"

EmExecucao(tarefas) ==
    Cardinality({i \in 1..Len(tarefas) : tarefas[i].est = "exec"})

\* The (dia, mes) a request of the data route asks for: the current date.
ParamsData ==
    {<<DataDe(hoje).dia, DataDe(hoje).mes>>}

-----------------------------------------------------------------------------
(* The routes.                                                             *)

\* `if dados_cache:` after cache.get(chave): a stored value that is true.
DadosCache(chave) == chave \in DOMAIN cache /\ Verdadeiro(cache[chave].valor)

\* The result list of inicio, once the fan-out has ended.
SantosInicio(soup, tarefas) ==
    IF ~Verdadeiro(Filtrados(tarefas)) /\ ~soup.temLista
    THEN <<extrair_info_santo(soup)>>
    ELSE Filtrados(tarefas)

\* The result list of data, once the fan-out has ended.
SantosData(soup, tarefas) ==
    IF soup.temLista THEN Filtrados(tarefas)
    ELSE IF extrair_info_santo(soup) # Nulo
         THEN <<extrair_info_santo(soup)>> ELSE <<>>

\* The thread of a request that has returned: its locals are gone.
Fim(rota, resposta) ==
    [Parado EXCEPT !.rota = rota, !.resposta = resposta]

\* A request arrives on a free thread.
Receber(r, rota, d, m) ==
    /\ proc[r].pc = "ocioso"
    /\ proc' = [proc EXCEPT ![r] =
                  [Parado EXCEPT !.pc = "consulta", !.rota = rota,
                                 !.dia = d, !.mes = m]]
    /\ UNCHANGED <<hoje, cache, memo, entrada, saida>>

\* inicio and data up to the `if dados_cache:` return.
Consultar(r) ==
    /\ proc[r].pc = "consulta"
    /\ proc[r].rota \in {"inicio", "data"}
    /\ LET k == ChaveDaRota(proc[r].rota, proc[r].dia, proc[r].mes, hoje)
       IN  proc' = [proc EXCEPT ![r] =
             IF DadosCache(k)
             THEN Fim(@.rota, RespostaResultados(cache[k].valor))
             ELSE [@ EXCEPT !.pc = "memo", !.chave = k,
                            !.url = UrlDaRota(proc[r].rota, proc[r].dia,
                                              proc[r].mes)]]
    /\ UNCHANGED <<hoje, cache, memo, entrada, saida>>

\* A mutant of limpar_cache: the memo of buscar_url is left as it is.
LimparSoCache(r) ==
    /\ proc[r].pc = "consulta"
    /\ proc[r].rota = "limpar"
    /\ cache' = Vazio
    /\ proc' = [proc EXCEPT ![r] = Fim(@.rota, RespostaMensagem)]
    /\ UNCHANGED <<hoje, memo, entrada, saida>>

\* The route /limpar-cache.
limpar_cache(r) ==
    /\ proc[r].pc = "consulta"
    /\ proc[r].rota = "limpar"
    /\ cache' = Vazio
    /\ memo' = Vazio
    /\ proc' = [proc EXCEPT ![r] = Fim(@.rota, RespostaMensagem)]
    /\ UNCHANGED <<hoje, entrada, saida>>

\* buscar_url(url) is called on the top-level URL: the memo answers, or the
\* request goes to the network.
BuscarTopo(p) ==
    /\ proc[p].pc = "memo"
    /\ proc' = [proc EXCEPT ![p] =
         IF @.url \in DOMAIN memo
         THEN [@ EXCEPT !.pc = "leque", !.soup = memo[proc[p].url].corpo,
                        !.tarefas = Tarefas(memo[proc[p].url].corpo),
                        !.lidos = {memo[proc[p].url].dia},
                        !.tentadas = IF p = Ag THEN @ \cup {proc[p].i} ELSE @]
         ELSE [@ EXCEPT !.pc = "rede",
                        !.tentadas = IF p = Ag THEN @ \cup {proc[p].i} ELSE @]]
    /\ UNCHANGED <<hoje, cache, memo, entrada, saida>>

\* The origin answers the top-level fetch: lru_cache keeps the body.
RedeTopoOk(p, pagina) ==
    /\ proc[p].pc = "rede"
    /\ memo' = Por(memo, proc[p].url, [corpo |-> pagina, dia |-> hoje])
    /\ proc' = [proc EXCEPT ![p] =
                  [@ EXCEPT !.pc = "leque", !.soup = pagina,
                            !.tarefas = Tarefas(pagina), !.lidos = {hoje}]]
    /\ UNCHANGED <<hoje, cache, entrada, saida>>

\* A mutant of RedeTopoFalha: the failure is stored as an empty result.
RedeTopoFalhaGuarda(r) ==
    /\ r # Ag
    /\ proc[r].pc = "rede"
    /\ cache' = Por(cache, proc[r].chave,
                    [valor |-> <<>>, dia |-> hoje, corpos |-> {}])
    /\ proc' = [proc EXCEPT ![r] = Fim(@.rota, RespostaErro)]
    /\ UNCHANGED <<hoje, memo, entrada, saida>>

\* The top-level fetch of a request raises: lines 190-192 and 220-222.
RedeTopoFalha(r) ==
    /\ r # Ag
    /\ proc[r].pc = "rede"
    /\ proc' = [proc EXCEPT ![r] = Fim(@.rota, RespostaErro)]
    /\ UNCHANGED <<hoje, cache, memo, entrada, saida>>

\* A mutant of TarefaInicia: the pool has a thread for every task.
TarefaIniciaSemLimite(p, i) ==
    /\ proc[p].pc = "leque"
    /\ i \in 1..Len(proc[p].tarefas)
    /\ proc[p].tarefas[i].est = "pend"
    /\ \A j \in 1..(i - 1) : proc[p].tarefas[j].est # "pend"
    /\ proc' = [proc EXCEPT
         ![p].tarefas[i] =
            IF @.url \in DOMAIN memo
            THEN [@ EXCEPT !.est = "fim",
                           !.res = extrair_info_santo(
                                      memo[proc[p].tarefas[i].url].corpo)]
            ELSE [@ EXCEPT !.est = "exec"],
         ![p].lidos =
            IF proc[p].tarefas[i].url \in DOMAIN memo
            THEN @ \cup {memo[proc[p].tarefas[i].url].dia} ELSE @]
    /\ UNCHANGED <<hoje, cache, memo, entrada, saida>>

\* A worker takes the next submitted task: buscar_dados_santo(url) up to
\* the answer of the memo.
TarefaInicia(p, i) ==
    /\ proc[p].pc = "leque"
    /\ i \in 1..Len(proc[p].tarefas)
    /\ proc[p].tarefas[i].est = "pend"
    /\ \A j \in 1..(i - 1) : proc[p].tarefas[j].est # "pend"
    /\ EmExecucao(proc[p].tarefas) < MaxWorkers
    /\ proc' = [proc EXCEPT
         ![p].tarefas[i] =
            IF @.url \in DOMAIN memo
            THEN [@ EXCEPT !.est = "fim",
                           !.res = extrair_info_santo(
                                      memo[proc[p].tarefas[i].url].corpo)]
            ELSE [@ EXCEPT !.est = "exec"],
         ![p].lidos =
            IF proc[p].tarefas[i].url \in DOMAIN memo
            THEN @ \cup {memo[proc[p].tarefas[i].url].dia} ELSE @]
    /\ UNCHANGED <<hoje, cache, memo, entrada, saida>>

\* The origin answers a task's fetch: the body is memoized and extracted.
TarefaRedeOk(p, i, variante) ==
    /\ proc[p].pc = "leque"
    /\ i \in 1..Len(proc[p].tarefas)
    /\ proc[p].tarefas[i].est = "exec"
    /\ LET pagina == PaginaFilho(proc[p].tarefas[i].url, variante)
       IN  /\ memo' = Por(memo, proc[p].tarefas[i].url,
                           [corpo |-> pagina, dia |-> hoje])
           /\ proc' = [proc EXCEPT
                  ![p].tarefas[i] =
                     [@ EXCEPT !.est = "fim",
                               !.res = extrair_info_santo(pagina)],
                  ![p].lidos = @ \cup {hoje}]
    /\ UNCHANGED <<hoje, cache, entrada, saida>>

\* A task's fetch raises: buscar_dados_santo returns None (lines 95-97).
TarefaRedeFalha(p, i) ==
    /\ proc[p].pc = "leque"
    /\ i \in 1..Len(proc[p].tarefas)
    /\ proc[p].tarefas[i].est = "exec"
    /\ proc' = [proc EXCEPT ![p].tarefas[i] =
                  [@ EXCEPT !.est = "fim", !.res = Nulo, !.falha = TRUE]]
    /\ UNCHANGED <<hoje, cache, memo, entrada, saida>>

\* inicio and data after the fan-out: the result is stored and returned.
Concluir(r) ==
    /\ r # Ag
    /\ proc[r].pc = "leque"
    /\ Terminadas(proc[r].tarefas)
    /\ LET santos == IF proc[r].rota = "inicio"
                     THEN SantosInicio(proc[r].soup, proc[r].tarefas)
                     ELSE SantosData(proc[r].soup, proc[r].tarefas)
       IN  /\ cache' = Por(cache, proc[r].chave,
                            [valor |-> santos, dia |-> hoje,
                             corpos |-> proc[r].lidos])
           /\ proc' = [proc EXCEPT ![r] =
                          Fim(@.rota, RespostaResultados(santos))]
    /\ UNCHANGED <<hoje, memo, entrada, saida>>

-----------------------------------------------------------------------------
(* The scheduler's job, limpar_e_atualizar_cache, and the clock.           *)

\* `urls` of the job, from its local `hoje`.
UrlsAg(hl) == <<UrlInicio, UrlData(DataDe(hl).dia, DataDe(hl).mes)>>

\* A mutant of ChaveAg: month and day change places in the key.
ChaveAgTrocada(url, hl, dia) ==
    criar_chave_cache(
        <<IF ~ContemDay(url) THEN "inicio"
          ELSE "data_" \o ToString(DataDe(hl).mes) \o "_"
                       \o ToString(DataDe(hl).dia)>>,
        SemKw, DataDe(dia))

\* The job's key for a url: line 131.
ChaveAg(url, hl, dia) ==
    criar_chave_cache(
        <<IF ~ContemDay(url) THEN "inicio"
          ELSE "data_" \o ToString(DataDe(hl).dia) \o "_"
                       \o ToString(DataDe(hl).mes)>>,
        SemKw, DataDe(dia))

\* The job goes on to the next url of the loop, or ends.
Seguinte(a) ==
    IF a.i < Len(UrlsAg(a.hojeLocal))
    THEN [a EXCEPT !.pc = "memo", !.i = a.i + 1,
                   !.url = UrlsAg(a.hojeLocal)[a.i + 1],
                   !.soup = Nulo, !.tarefas = <<>>, !.lidos = {}]
    ELSE [Parado EXCEPT !.tentadas = a.tentadas, !.resolvidas = a.resolvidas]

\* Midnight: the date changes and CronTrigger(hour=0, minute=0) fires the
\* job. A firing lasts far less than a day: the job of the day before has
\* ended. The behaviours go through at most `limite` midnights.
Meianoite(limite) ==
    /\ hoje < limite
    /\ proc[Ag].pc = "ocioso"
    /\ hoje' = hoje + 1
    /\ proc' = [proc EXCEPT ![Ag] = [Parado EXCEPT !.pc = "limpar"]]
    /\ UNCHANGED <<cache, memo, entrada, saida>>

Tick == Meianoite(MaxDia)

\* Lines 105-113: both caches are cleared and `hoje` is read.
AgLimpar ==
    /\ proc[Ag].pc = "limpar"
    /\ cache' = Vazio
    /\ memo' = Vazio
    /\ proc' = [proc EXCEPT ![Ag] =
                  [@ EXCEPT !.pc = "memo", !.i = 1, !.hojeLocal = hoje,
                            !.url = UrlsAg(hoje)[1]]]
    /\ UNCHANGED <<hoje, entrada, saida>>

\* cache.clear() raises (a cache backend that can fail, as the redis one of
\* the configuration): line 138 catches it and the job ends, nothing
\* cleared and nothing pre-warmed.
AgLimparFalha ==
    /\ proc[Ag].pc = "limpar"
    /\ proc' = [proc EXCEPT ![Ag] = Parado]
    /\ UNCHANGED <<hoje, cache, memo, entrada, saida>>

\* A mutant of AgRedeTopoFalha: no handler catches the exception and the
\* job's thread dies with the scheduler.
AgRedeTopoFalhaEscapa ==
    /\ proc[Ag].pc = "rede"
    /\ proc' = [proc EXCEPT ![Ag] = [@ EXCEPT !.pc = "escapou"]]
    /\ UNCHANGED <<hoje, cache, memo, entrada, saida>>

\* A mutant of AgRedeTopoFalha: the exception leaves the loop and the job
\* ends at line 138.
AgRedeTopoFalhaAborta ==
    /\ proc[Ag].pc = "rede"
    /\ proc' = [proc EXCEPT ![Ag] =
                  [Parado EXCEPT !.tentadas = proc[Ag].tentadas,
                                 !.resolvidas = proc[Ag].resolvidas]]
    /\ UNCHANGED <<hoje, cache, memo, entrada, saida>>

\* The job's top-level fetch raises: caught at line 134, the loop goes on.
AgRedeTopoFalha ==
    /\ proc[Ag].pc = "rede"
    /\ proc' = [proc EXCEPT ![Ag] = Seguinte(@)]
    /\ UNCHANGED <<hoje, cache, memo, entrada, saida>>

\* Lines 121-132 after the fan-out: `santos` is assigned when the page is a
\* list or its extraction succeeds, and stored; reading an unbound `santos`
\* raises, which line 134 catches.
AgConcluir ==
    /\ proc[Ag].pc = "leque"
    /\ Terminadas(proc[Ag].tarefas)
    /\ LET a == proc[Ag]
           info == extrair_info_santo(a.soup)
           atribui == a.soup.temLista \/ info # Nulo
           santos == IF a.soup.temLista THEN Filtrados(a.tarefas)
                     ELSE IF info # Nulo THEN <<info>> ELSE a.santos
           ligado == a.temSantos \/ atribui
           corpos == IF atribui THEN a.lidos ELSE a.corpos
       IN  /\ cache' = IF ligado
                       THEN Por(cache, ChaveAg(a.url, a.hojeLocal, hoje),
                                [valor |-> santos, dia |-> hoje,
                                 corpos |-> corpos])
                       ELSE cache
           /\ proc' = [proc EXCEPT ![Ag] =
                  Seguinte([a EXCEPT !.santos = santos, !.temSantos = ligado,
                                     !.corpos = corpos,
                                     !.resolvidas =
                                        IF atribui THEN @ \cup {a.i} ELSE @])]
    /\ UNCHANGED <<hoje, memo, entrada, saida>>

\* CACHE_DEFAULT_TIMEOUT = 86400: an entry stored on an earlier date may
\* have reached its 24 hours.
Expirar(k) ==
    /\ k \in DOMAIN cache
    /\ cache[k].dia < hoje
    /\ cache' = [x \in DOMAIN cache \ {k} |-> cache[x]]
    /\ UNCHANGED <<hoje, memo, proc, entrada, saida>>

-----------------------------------------------------------------------------
(* The specification of the server.                                        *)

Init ==
    /\ hoje = 0
    /\ cache = Vazio
    /\ memo = Vazio
    /\ proc = [p \in Procs |-> Parado]
    /\ entrada = <<>>
    /\ saida = <<>>

Next ==
    \/ \E r \in Reqs : Receber(r, "inicio", 0, 0)
    \/ \E r \in Reqs : \E dm \in ParamsData : Receber(r, "data", dm[1], dm[2])
    \/ \E r \in Reqs : Receber(r, "limpar", 0, 0)
    \/ \E r \in Reqs : Consultar(r)
    \/ \E r \in Reqs : limpar_cache(r)
    \/ \E p \in Procs : BuscarTopo(p)
    \/ \E p \in Procs : \E pagina \in OrigemTopo(proc[p].url) :
          RedeTopoOk(p, pagina)
    \/ \E r \in Reqs : RedeTopoFalha(r)
    \/ \E p \in Procs : TarefaInicia(p, 1)
    \/ \E p \in Procs : TarefaRedeOk(p, 1, "boa")
    \/ \E p \in Procs : TarefaRedeFalha(p, 1)
    \/ \E r \in Reqs : Concluir(r)
    \/ Tick
    \/ AgLimpar
    \/ AgRedeTopoFalha
    \/ AgConcluir
    \/ \E k \in DOMAIN cache : Expirar(k)

Spec == Init /\ [][Next]_vars

-----------------------------------------------------------------------------
(* The specification of the fan-out: requests alone, on list pages of up   *)
(* to MaxLinks links whose pages are whole, broken or not fetched.         *)

NextLeque ==
    \/ \E r \in Reqs : Receber(r, "inicio", 0, 0)
    \/ \E r \in Reqs : \E dm \in ParamsData : Receber(r, "data", dm[1], dm[2])
    \/ \E r \in Reqs : Consultar(r)
    \/ \E r \in Reqs : BuscarTopo(r)
    \/ \E r \in Reqs : \E pagina \in OrigemLeque : RedeTopoOk(r, pagina)
    \/ \E r \in Reqs : RedeTopoFalha(r)
    \/ \E r \in Reqs : \E i \in 1..MaxLinks : TarefaInicia(r, i)
    \/ \E r \in Reqs : \E i \in 1..MaxLinks :
          \E v \in {"boa", "quebrada"} : TarefaRedeOk(r, i, v)
    \/ \E r \in Reqs : \E i \in 1..MaxLinks : TarefaRedeFalha(r, i)
    \/ \E r \in Reqs : Concluir(r)

SpecLeque == Init /\ [][NextLeque]_vars

\* A step of a request that has been received: the handler's thread and
\* the workers of its pool run, and every fetch ends, with a body or with
\* an exception (timeout=10 at line 63).
PassoDoPedido(r) ==
    \/ Consultar(r)
    \/ BuscarTopo(r)
    \/ RedeTopoFalha(r)
    \/ Concluir(r)
    \/ \E i \in 1..MaxLinks : TarefaInicia(r, i)
    \/ \E i \in 1..MaxLinks : TarefaRedeFalha(r, i)
    \/ \E pagina \in OrigemLeque : RedeTopoOk(r, pagina)
    \/ \E i \in 1..MaxLinks : \E v \in {"boa", "quebrada"} : TarefaRedeOk(r, i, v)

\* The fan-out under that scheduling; requests arrive or not.
SpecLequeJusto ==
    Init /\ [][NextLeque]_vars /\ \A r \in Reqs : WF_vars(PassoDoPedido(r))

-----------------------------------------------------------------------------
(* The specification of the scheduler: the job alone, fired at several     *)
(* midnights, on pages of every kind, with a clear step that may raise.    *)
(* The job's thread runs while it has a step to take, every fetch ends     *)
(* (timeout=10), and midnight comes.                                       *)

\* Number of midnights of the scheduler's specification.
MaxDisparos == 2

TickAg == Meianoite(MaxDisparos)

NextAgendador ==
    \/ TickAg
    \/ AgLimpar
    \/ AgLimparFalha
    \/ BuscarTopo(Ag)
    \/ \E pagina \in OrigemLeque : RedeTopoOk(Ag, pagina)
    \/ AgRedeTopoFalha
    \/ \E i \in 1..MaxLinks : TarefaInicia(Ag, i)
    \/ \E i \in 1..MaxLinks : \E v \in {"boa", "quebrada"} : TarefaRedeOk(Ag, i, v)
    \/ \E i \in 1..MaxLinks : TarefaRedeFalha(Ag, i)
    \/ AgConcluir

\* A step of the job's thread, of its pool or of the network.
PassoDoAgendador ==
    \/ AgLimpar
    \/ AgLimparFalha
    \/ BuscarTopo(Ag)
    \/ AgRedeTopoFalha
    \/ AgConcluir
    \/ \E i \in 1..MaxLinks : TarefaInicia(Ag, i)
    \/ \E i \in 1..MaxLinks : TarefaRedeFalha(Ag, i)
    \/ \E pagina \in OrigemLeque : RedeTopoOk(Ag, pagina)
    \/ \E i \in 1..MaxLinks : \E v \in {"boa", "quebrada"} : TarefaRedeOk(Ag, i, v)

SpecAgendador ==
    Init /\ [][NextAgendador]_vars /\ WF_vars(TickAg) /\ WF_vars(PassoDoAgendador)

-----------------------------------------------------------------------------
(* The specification of simultaneous requests: two request threads on the  *)
(* routes inicio and limpar-cache, no scheduler.                           *)

NextPar ==
    \/ \E r \in Simultaneos : Receber(r, "inicio", 0, 0)
    \/ \E r \in Simultaneos : Receber(r, "limpar", 0, 0)
    \/ \E r \in Simultaneos : Consultar(r)
    \/ \E r \in Simultaneos : limpar_cache(r)
    \/ \E r \in Simultaneos : BuscarTopo(r)
    \/ \E r \in Simultaneos : \E pagina \in OrigemTopo(proc[r].url) :
          RedeTopoOk(r, pagina)
    \/ \E r \in Simultaneos : RedeTopoFalha(r)
    \/ \E r \in Simultaneos : TarefaInicia(r, 1)
    \/ \E r \in Simultaneos : TarefaRedeOk(r, 1, "boa")
    \/ \E r \in Simultaneos : TarefaRedeFalha(r, 1)
    \/ \E r \in Simultaneos : Concluir(r)

SpecPar == Init /\ [][NextPar]_vars

-----------------------------------------------------------------------------------------------------------------------------------------------------
(* The specification of the worker pool: one caller of the fan-out, a      *)
(* thread of the route inicio or the scheduler's job, on a list page of    *)
(* more links than the pool has workers. The page of a saint is served     *)
(* whole or not at all. The pool is local to the call (lines 123, 182,     *)
(* 211).                                                                   *)

\* Number of links of the list page of the pool's specification.
MaxFila == 6

\* The caller is chosen at the start.
InitFila ==
    /\ hoje = 0
    /\ cache = Vazio
    /\ memo = Vazio
    /\ proc = [p \in Procs |-> Parado]
    /\ entrada \in {"rota", "agendador"}
    /\ saida = <<>>

\* The threads that run in a behaviour of the pool's specification.
Chamador == IF entrada = "rota" THEN Reqs ELSE {Ag}

NextFila ==
    \/ \E r \in Chamador \ {Ag} : Receber(r, "inicio", 0, 0)
    \/ \E r \in Chamador \ {Ag} : Consultar(r)
    \/ \E p \in Chamador : BuscarTopo(p)
    \/ \E p \in Chamador : RedeTopoOk(p, ListaDe(MaxFila))
    \/ \E p \in Chamador : \E i \in 1..MaxFila : TarefaInicia(p, i)
    \/ \E p \in Chamador : \E i \in 1..MaxFila : TarefaRedeOk(p, i, "boa")
    \/ \E p \in Chamador : \E i \in 1..MaxFila : TarefaRedeFalha(p, i)
    \/ \E r \in Chamador \ {Ag} : Concluir(r)
    \/ Ag \in Chamador /\ Tick
    \/ Ag \in Chamador /\ AgLimpar
    \/ Ag \in Chamador /\ AgConcluir

SpecFila == InitFila /\ [][NextFila]_vars

-----------------------------------------------------------------------------
(* The specification of criar_chave_cache: the key of a call, derived at   *)
(* two moments.                                                            *)

\* The arguments of the calls.
ArgsChave ==
    {<<"inicio">>, <<"data", "30", "1">>, <<"data", "1", "30">>,
     <<"data_30_1">>, <<"data">>}

\* The keyword arguments of the calls.
KwChave ==
    UNION {[nomes -> {"1", "30"}] : nomes \in SUBSET {"dia", "mes"}}

\* The moments of the calls: a date and an hour of it.
Agoras ==
    {[ano |-> DataDe(i).ano, mes |-> DataDe(i).mes, dia |-> DataDe(i).dia,
      hora |-> h] : i \in 0..(MaxDia + 1), h \in {0, 23}}

InitChave ==
    /\ hoje = 0
    /\ cache = Vazio
    /\ memo = Vazio
    /\ proc = [p \in Procs |-> Parado]
    /\ entrada \in [args : ArgsChave, kwargs : KwChave,
                    agora1 : Agoras, agora2 : Agoras]
    /\ saida = <<>>

\* The key is derived at both moments.
DerivarChaves ==
    /\ saida = <<>>
    /\ saida' = <<criar_chave_cache(entrada.args, entrada.kwargs, entrada.agora1),
                  criar_chave_cache(entrada.args, entrada.kwargs, entrada.agora2)>>
    /\ UNCHANGED <<hoje, cache, memo, proc, entrada>>

NextChave == DerivarChaves

SpecChave == InitChave /\ [][NextChave]_vars

-----------------------------------------------------------------------------
(* The specification of extrair_info_santo: one page, extracted.           *)

\* The text of a paragraph: plain, blank, or with blanks around it.
Textos == {<<"a">>, <<" ">>, <<" ", "b", "\n">>}

\* The paragraph lists of up to MaxPar paragraphs.
Paragrafos == UNION {[1..n -> Textos] : n \in 0..MaxPar}

PaginasExtrair ==
    {Pagina(FALSE, <<>>, temNome, <<" ", "N">>, temTexto, ps, feature, "/i.jpg") :
        temNome \in BOOLEAN, temTexto \in BOOLEAN, ps \in Paragrafos,
        feature \in {"ausente", "semRetrato", "semSrc", "comSrc"}}

InitExtrair ==
    /\ hoje = 0
    /\ cache = Vazio
    /\ memo = Vazio
    /\ proc = [p \in Procs |-> Parado]
    /\ entrada \in PaginasExtrair
    /\ saida = <<>>

\* The page is extracted.
Extrair ==
    /\ saida = <<>>
    /\ saida' = <<extrair_info_santo(entrada)>>
    /\ UNCHANGED <<hoje, cache, memo, proc, entrada>>

NextExtrair == Extrair

SpecExtrair == InitExtrair /\ [][NextExtrair]_vars

-----------------------------------------------------------------------------
(* The claims.                                                             *)

ChaveInicioHoje == ChaveDaRota("inicio", 0, 0, hoje)

ChaveDataHoje == ChaveDaRota("data", DataDe(hoje).dia, DataDe(hoje).mes, hoje)

\* C1: on both routes, a request whose key is in the cache, whatever the
\* stored value (the empty list too), returns the stored value and does not
\* call buscar_url.
C1_CacheCurtoCircuito ==
    [][\A r \in Reqs :
        (/\ proc[r].pc = "consulta"
         /\ proc[r].rota \in {"inicio", "data"}
         /\ proc'[r] # proc[r]
         /\ ChaveDaRota(proc[r].rota, proc[r].dia, proc[r].mes, hoje)
               \in DOMAIN cache)
        => (/\ proc'[r].pc = "ocioso"
            /\ proc'[r].resposta.tipo = "resultados"
            /\ proc'[r].resposta.resultados =
                 cache[ChaveDaRota(proc[r].rota, proc[r].dia, proc[r].mes,
                                   hoje)].valor)]_vars

\* C2: a list page of k links of which f tasks fail (fetch or extraction)
\* resolves to k - f records, the records of the succeeding links in the
\* order of the links, whatever the order in which the tasks end.
C2_LequeCorreto ==
    [][\A r \in Reqs :
        (/\ proc[r].pc = "leque"
         /\ proc'[r].pc = "ocioso"
         /\ proc[r].soup.temLista)
        => LET links == proc[r].soup.links
               ts == proc[r].tarefas
               k == Len(links)
               falhas == {i \in 1..Len(ts) : ts[i].res = Nulo}
               sucessos == (1..k) \ falhas
               pos(i) == Cardinality({j \in sucessos : j <= i})
               R == proc'[r].resposta.resultados
           IN  /\ proc'[r].resposta.tipo = "resultados"
               /\ Len(R) = k - Cardinality(falhas)
               /\ \A i \in sucessos : R[pos(i)].nome = <<links[i]>>]_vars

\* C2, its case: of three links the second failed, and the answer holds the
\* records of the first and the third, in that order.
C2_Testemunha ==
    \E r \in Reqs :
        /\ proc[r].pc = "ocioso"
        /\ proc[r].resposta.tipo = "resultados"
        /\ Len(proc[r].resposta.resultados) = 2
        /\ proc[r].resposta.resultados[1].nome = <<Href(1)>>
        /\ proc[r].resposta.resultados[2].nome = <<Href(3)>>

\* C3: when the top-level page has no saints-list and its extraction fails,
\* the result returned and cached is the empty list, on both routes.
C3_ExtracaoFalhaListaVazia ==
    [][\A r \in Reqs :
        (/\ proc[r].pc = "leque"
         /\ proc'[r].pc = "ocioso"
         /\ ~proc[r].soup.temLista
         /\ extrair_info_santo(proc[r].soup) = Nulo)
        => (/\ proc'[r].resposta.resultados = <<>>
            /\ proc[r].chave \in DOMAIN cache'
            /\ cache'[proc[r].chave].valor = <<>>)]_vars

\* C4: a request whose top-level fetch fails is answered with the error
\* body and status 500, never with a result list.
C4_FalhaDoTopo ==
    [][\A r \in Reqs :
        (proc[r].pc = "rede" /\ proc'[r].pc = "ocioso")
        => (/\ proc'[r].resposta.tipo = "erro"
            /\ proc'[r].resposta.status = 500
            /\ proc'[r].resposta.resultados = <<>>)]_vars

\* C4, its case: a request has been answered with the error.
C4_Testemunha ==
    \E r \in Reqs :
        /\ proc[r].pc = "ocioso"
        /\ proc[r].rota \in {"inicio", "data"}
        /\ proc[r].resposta.tipo = "erro"

MesmaData(a, b) == a.ano = b.ano /\ a.mes = b.mes /\ a.dia = b.dia

\* C5: the key of a call is the same at two moments of one calendar date,
\* and differs at two moments of different dates.
C5_ChaveDeterminista ==
    saida # <<>> =>
        /\ MesmaData(entrada.agora1, entrada.agora2) => saida[1] = saida[2]
        /\ ~MesmaData(entrada.agora1, entrada.agora2) => saida[1] # saida[2]

\* C5, its case: the key of a call with arguments was derived on two dates.
C5_Testemunha ==
    /\ saida # <<>>
    /\ Len(entrada.args) = 3
    /\ DOMAIN entrada.kwargs = {"dia", "mes"}
    /\ ~MesmaData(entrada.agora1, entrada.agora2)

\* C6: after a firing of the job in which both resolutions gave a list, the
\* cache holds an entry under the key inicio looks up and one under the key
\* data looks up for the day and month of the date, and either route's
\* `if dados_cache:` takes it.
C6_PreAquecido ==
    [][(/\ proc[Ag].pc = "leque"
        /\ proc'[Ag].pc = "ocioso"
        /\ proc'[Ag].resolvidas = {1, 2}
        /\ ChaveInicioHoje \in DOMAIN cache)
       => (/\ ChaveInicioHoje \in DOMAIN cache'
           /\ ChaveDataHoje \in DOMAIN cache'
           /\ Verdadeiro(cache'[ChaveInicioHoje].valor)
           /\ Verdadeiro(cache'[ChaveDataHoje].valor))]_vars

\* Part of C6: what the job stores for a url whose resolution gave a list,
\* it stores under the key the url's route looks up on that date, and under
\* no other key.
C6_ChavesDasRotas ==
    [][(/\ proc[Ag].pc = "leque"
        /\ proc'[Ag].resolvidas # proc[Ag].resolvidas)
       => LET k == IF proc[Ag].i = 1 THEN ChaveInicioHoje ELSE ChaveDataHoje
          IN  /\ k \in DOMAIN cache'
              /\ DOMAIN cache' = DOMAIN cache \cup {k}
              /\ \A x \in DOMAIN cache \ {k} : cache'[x] = cache[x]]_vars

\* C7: a firing of the job that has ended has called buscar_url on both
\* urls, whatever failed on the way.
C7_AmbasTentadas ==
    (proc[Ag].pc = "ocioso" /\ hoje > 0) => proc[Ag].tentadas = {1, 2}

\* C7, its case: the resolution of the first url failed and the second url
\* was resolved and stored.
C7_Testemunha ==
    /\ proc[Ag].pc = "ocioso"
    /\ hoje > 0
    /\ proc[Ag].tentadas = {1, 2}
    /\ proc[Ag].resolvidas = {2}

\* The first n paragraphs, each stripped.
Primeiros(ps, n) == [i \in 1..n |-> Strip(ps[i])]

\* C8: for a page of N paragraphs, none of them blank, the story is the
\* first max(N-4, 0) paragraphs joined, the reflection is empty iff N < 3
\* and else the third paragraph from the end, the prayer is empty iff N = 0
\* and else the last paragraph.
C8_LeiPosicional ==
    (/\ saida # <<>>
     /\ saida[1] # Nulo
     /\ \A i \in 1..Len(entrada.ps) : Strip(entrada.ps[i]) # <<>>)
    => LET P == entrada.ps
           N == Len(P)
           santo == saida[1]
       IN  /\ santo.historia = Join(Primeiros(P, IF N > 4 THEN N - 4 ELSE 0))
           /\ santo.reflexao = <<>> <=> N < 3
           /\ N >= 3 => santo.reflexao = Strip(P[N - 2])
           /\ santo.oracao = <<>> <=> N = 0
           /\ N >= 1 => santo.oracao = Strip(P[N])

\* C8, its case: a page of six paragraphs, none blank, was extracted.
C8_Testemunha ==
    /\ saida # <<>>
    /\ saida[1] # Nulo
    /\ Len(entrada.ps) = 6
    /\ \A i \in 1..Len(entrada.ps) : Strip(entrada.ps[i]) # <<>>
    /\ entrada.ps[4] # entrada.ps[3]

\* The step of a request that resolves a list page of three links whose
\* tasks all gave a record.
CenarioA(r) ==
    /\ proc[r].pc = "leque"
    /\ proc'[r].pc = "ocioso"
    /\ proc[r].soup.temLista
    /\ Len(proc[r].soup.links) = 3
    /\ \A i \in 1..3 : proc[r].tarefas[i].res # Nulo

\* C9 as stated: three links, six paragraphs each: three records, the story
\* paragraphs 1 and 2 joined, the reflection paragraph 3, the prayer
\* paragraph 6.
C9_CenarioA_Original ==
    [][\A r \in Reqs : CenarioA(r) =>
        LET R == proc'[r].resposta.resultados
        IN  /\ Len(R) = 3
            /\ \A i \in 1..3 :
                 /\ R[i].historia = SeisParagrafos[1] \o <<"\n", "\n">>
                                       \o SeisParagrafos[2]
                 /\ R[i].reflexao = SeisParagrafos[3]
                 /\ R[i].oracao = SeisParagrafos[6]]_vars

\* C9 amended: three links, six paragraphs each: three records, the story
\* paragraphs 1 and 2 joined, the reflection paragraph 4, the prayer
\* paragraph 6.
C9_CenarioA ==
    [][\A r \in Reqs : CenarioA(r) =>
        LET R == proc'[r].resposta.resultados
        IN  /\ Len(R) = 3
            /\ \A i \in 1..3 :
                 /\ R[i].historia = SeisParagrafos[1] \o <<"\n", "\n">>
                                       \o SeisParagrafos[2]
                 /\ R[i].reflexao = SeisParagrafos[4]
                 /\ R[i].oracao = SeisParagrafos[6]]_vars

\* C9, its case: a request was answered with the records of three links.
C9_Testemunha ==
    \E r \in Reqs :
        /\ proc[r].pc = "ocioso"
        /\ Len(proc[r].resposta.resultados) = 3
        /\ \A i \in 1..3 : proc[r].resposta.resultados[i].nome = <<Href(i)>>

\* C10: the header of a response is HIT when the request was answered from
\* the cache and MISS when it was not.
C10_CabecalhoDistingue ==
    [][\A r \in Reqs :
        (proc[r].pc # "ocioso" /\ proc'[r].pc = "ocioso")
        => proc'[r].resposta.cabecalho =
             (IF proc[r].pc = "consulta" /\ proc'[r].resposta.tipo = "resultados"
              THEN "HIT" ELSE "MISS")]_vars

\* C11: whatever fails in a firing of the job (the clear step, a top-level
\* fetch, a task, the unbound `santos`), the job's thread comes back to rest
\* and the next midnight fires the job again.
C11_AgendadorSobrevive ==
    \A d \in 1..(MaxDisparos - 1) :
        (hoje = d /\ proc[Ag].pc = "limpar")
            ~> (hoje = d + 1 /\ proc[Ag].pc = "limpar")

\* C11, its case: the job is fired again after a firing that fetched no
\* page and stored nothing (its clear step or both its fetches failed).
C11_Testemunha ==
    /\ hoje = 2
    /\ proc[Ag].pc = "limpar"
    /\ cache = Vazio
    /\ memo = Vazio

\* C12: every call of limpar_cache leaves the cache and the memo of
\* buscar_url empty and answers with the confirmation, status 200; called
\* when both are empty already, it changes neither.
C12_LimparIdempotente ==
    [][\A r \in Simultaneos :
        (/\ proc[r].pc = "consulta"
         /\ proc[r].rota = "limpar"
         /\ proc'[r] # proc[r])
        => (/\ cache' = Vazio
            /\ memo' = Vazio
            /\ proc'[r].pc = "ocioso"
            /\ proc'[r].resposta.tipo = "mensagem"
            /\ proc'[r].resposta.status = 200
            /\ (cache = Vazio /\ memo = Vazio)
                  => (cache' = cache /\ memo' = memo))]_vars

\* C12, its case: two calls of limpar_cache have been answered, the later
\* one on stores that were empty.
C12_Testemunha ==
    /\ \A r \in Simultaneos :
          /\ proc[r].pc = "ocioso"
          /\ proc[r].rota = "limpar"
          /\ proc[r].resposta.tipo = "mensagem"
    /\ cache = Vazio
    /\ memo = Vazio

\* C13: a page that has the feature-name element is extracted to a record,
\* whatever else it lacks: without a portrait the record has no image, and
\* with fewer than four paragraphs its sections are empty or short.
C13_SoFalhaSemNome ==
    (saida # <<>> /\ entrada.temNome) => saida[1] # Nulo

\* C14: when the job is done with one of its urls, the cache holds under
\* that url's key the result of resolving that url in this firing: the
\* filtered records of its list, the record of its page, or the empty list
\* when its page is no list and cannot be extracted.
C14_ValorDoProprioUrl ==
    [][(proc[Ag].pc = "leque" /\ proc'[Ag].pc # "leque")
       => LET a == proc[Ag]
              info == extrair_info_santo(a.soup)
              proprio == IF a.soup.temLista THEN Filtrados(a.tarefas)
                         ELSE IF info # Nulo THEN <<info>> ELSE <<>>
              k == ChaveAg(a.url, a.hojeLocal, hoje)
          IN  /\ k \in DOMAIN cache'
              /\ cache'[k].valor = proprio]_vars

\* The tasks of a fan-out that a worker is running.
EmVoo(p) == {i \in 1..Len(proc[p].tarefas) : proc[p].tarefas[i].est = "exec"}

\* C15: in the fan-out of a route or of the job, at most five tasks run at
\* any moment, and the call goes on past the fan-out only when every task
\* has ended.
C15_LequeLimitado ==
    /\ [](\A p \in Procs : Cardinality(EmVoo(p)) <= 5)
    /\ [][\A p \in Procs :
            (proc[p].pc = "leque" /\ proc'[p].pc # "leque")
            => \A i \in 1..Len(proc[p].tarefas) :
                  proc[p].tarefas[i].est = "fim"]_vars

\* C15, its case: five tasks of a fan-out of six run and the sixth waits.
C15_Testemunha ==
    \E p \in Procs :
        /\ Cardinality(EmVoo(p)) = 5
        /\ \E i \in 1..Len(proc[p].tarefas) : proc[p].tarefas[i].est = "pend"

\* The calls of buscar_url that are on the network: <<p, 0>> is the
\* top-level fetch of thread p, <<p, i>> the fetch of its i-th task.
NaRede ==
    {<<p, 0>> : p \in {q \in Procs : proc[q].pc = "rede"}}
        \cup UNION {{<<p, i>> : i \in EmVoo(p)} : p \in Procs}

UrlNaRede(f) == IF f[2] = 0 THEN proc[f[1]].url ELSE proc[f[1]].tarefas[f[2]].url

\* C16: with no clear of the memo in between, a url is not on the network
\* twice: two calls of buscar_url that are on the network at the same time
\* are for different urls.
C16_UmaBuscaPorUrl ==
    \A f \in NaRede : \A g \in NaRede : f # g => UrlNaRede(f) # UrlNaRede(g)

\* The keys the routes and the job derive on the date of index d.
ChavesDoDia(d) ==
    {ChaveDaRota("inicio", 0, 0, d)}
        \cup {ChaveDaRota("data", DataDe(x).dia, DataDe(x).mes, d) : x \in 0..MaxDia}

\* C17: an entry of the cache under a key derived on a date holds a value
\* built only from bodies fetched on that date.
C17_DataCoerente ==
    \A k \in DOMAIN cache : \A d \in 0..MaxDia :
        k \in ChavesDoDia(d) => cache[k].corpos \subseteq {d}

\* C18: the step in which a fetch fails, the top-level fetch of a request
\* or of the job or the fetch of a task, changes neither the cache nor the
\* memo; a request that is answered with the error has stored nothing.
C18_FalhaNadaGrava ==
    [][\A p \in Procs :
        /\ (proc[p].pc = "rede" /\ proc'[p].pc \notin {"rede", "leque"})
              => (cache' = cache /\ memo' = memo)
        /\ \A i \in 1..Len(proc[p].tarefas) :
              (/\ proc[p].tarefas[i].est = "exec"
               /\ proc'[p].pc = "leque"
               /\ proc'[p].tarefas[i].falha)
              => (cache' = cache /\ memo' = memo)]_vars

\* C18, its case: inicio was answered with the error, and neither its key
\* is in the cache nor its url in the memo: the next request fetches again.
C18_Testemunha ==
    \E r \in Reqs :
        /\ proc[r].pc = "ocioso"
        /\ proc[r].rota = "inicio"
        /\ proc[r].resposta.tipo = "erro"
        /\ ChaveInicioHoje \notin DOMAIN cache
        /\ UrlInicio \notin DOMAIN memo

\* C19: a request that has been received is answered, with a result list
\* or with the error, whatever the page, the number of its links and the
\* order in which the workers run and the fetches end.
C19_PedidoTermina ==
    \A r \in Reqs :
        (proc[r].pc # "ocioso")
            ~> (/\ proc[r].pc = "ocioso"
                /\ proc[r].resposta.tipo \in {"resultados", "erro"})

\* C19, its case: inicio was answered with the empty list for a list page
\* of MaxLinks links: every task of the pool ended without a record.
C19_Testemunha ==
    \E r \in Reqs :
        /\ proc[r].pc = "ocioso"
        /\ proc[r].rota = "inicio"
        /\ proc[r].resposta.tipo = "resultados"
        /\ proc[r].resposta.resultados = <<>>
        /\ UrlInicio \in DOMAIN memo
        /\ memo[UrlInicio].corpo = ListaDe(MaxLinks)

====
